---- MODULE Spec2Model ----
(***************************************************************************)
(* State-machine model of eml2pdf.py: the enumeration of the input         *)
(* directory, the ThreadPoolExecutor running process_email_task, the       *)
(* as_completed collection loop, the sort and threshold-driven batch       *)
(* assembly of convert_eml_files_in_directory, the per-part attachment     *)
(* deduplication of append_attachment_pages_to_merger, and the summary.    *)
(*                                                                         *)
(* Strings are tuples of one-character strings, so that str comparison,    *)
(* lower(), endswith(), Path.stem, re.sub and number formatting are        *)
(* computed the way Python computes them.  Only out_format "pdf" is        *)
(* modelled.  SHA-256 is modelled as collision free.                       *)
(***************************************************************************)
EXTENDS Integers, Sequences, FiniteSets, TLC

\* ------------------------------------------------------------------ bounds
MaxTasks == 3
MaxThreads == 2

\* Python's None, for paths, names and digests (all tuples in this model)
None == <<>>

\* ----------------------------------------------------------------- strings
Digits == <<"0", "1", "2", "3", "4", "5", "6", "7", "8", "9">>
UpperCase == <<"A", "B", "C", "D", "E", "F", "G", "H", "I", "J", "K", "L", "M",
               "N", "O", "P", "Q", "R", "S", "T", "U", "V", "W", "X", "Y", "Z">>
LowerCase == <<"a", "b", "c", "d", "e", "f", "g", "h", "i", "j", "k", "l", "m",
               "n", "o", "p", "q", "r", "s", "t", "u", "v", "w", "x", "y", "z">>

Range(s) == {s[i] : i \in DOMAIN s}
IndexOf(s, c) == CHOOSE i \in DOMAIN s : s[i] = c

\* ord(c) for the characters that occur in names and identifiers
Ord(c) ==
    IF c \in Range(Digits) THEN 47 + IndexOf(Digits, c)
    ELSE IF c \in Range(UpperCase) THEN 64 + IndexOf(UpperCase, c)
    ELSE IF c \in Range(LowerCase) THEN 96 + IndexOf(LowerCase, c)
    ELSE CASE c = " " -> 32
           [] c = "*" -> 42
           [] c = "-" -> 45
           [] c = "." -> 46
           [] c = "?" -> 63
           [] c = "_" -> 95

\* str.__lt__ : lexicographic by code point, a proper prefix is smaller
RECURSIVE StrLess(_, _)
StrLess(a, b) ==
    IF b = <<>> THEN FALSE
    ELSE IF a = <<>> THEN TRUE
    ELSE IF Head(a) = Head(b) THEN StrLess(Tail(a), Tail(b))
    ELSE Ord(Head(a)) < Ord(Head(b))

\* str.lower()
Lower(s) ==
    [i \in DOMAIN s |->
        IF s[i] \in Range(UpperCase) THEN LowerCase[IndexOf(UpperCase, s[i])] ELSE s[i]]

\* str.endswith(suffix)
EndsWith(s, suffix) ==
    /\ Len(s) >= Len(suffix)
    /\ SubSeq(s, Len(s) - Len(suffix) + 1, Len(s)) = suffix

\* pathlib.PurePath.stem : the name without its last suffix
Stem(name) ==
    LET dots == {i \in DOMAIN name : name[i] = "."}
        last == IF dots = {} THEN 0 ELSE CHOOSE i \in dots : \A j \in dots : j <= i
    IN  IF last > 1 /\ last < Len(name) THEN SubSeq(name, 1, last - 1) ELSE name

\* re.sub(r'[\\/*?:"<>|]', "_", s)
Sanitise(s) ==
    [i \in DOMAIN s |->
        IF s[i] \in {"\\", "/", "*", "?", ":", "\"", "<", ">", "|"} THEN "_" ELSE s[i]]

\* str(n) for n >= 0
RECURSIVE ToDecimal(_)
ToDecimal(n) ==
    IF n < 10 THEN <<Digits[n + 1]>>
    ELSE ToDecimal(n \div 10) \o <<Digits[(n % 10) + 1]>>

\* f"{n:03d}"
ZeroPad3(n) ==
    LET d == ToDecimal(n)
    IN  IF Len(d) >= 3 THEN d ELSE [i \in 1..(3 - Len(d)) |-> "0"] \o d

DotEml == <<".", "e", "m", "l">>
DotMbox == <<".", "m", "b", "o", "x">>
DotMbx == <<".", "m", "b", "x">>
DotPdf == <<".", "p", "d", "f">>

\* get_sha256_hash : the digest identifies the bytes
get_sha256_hash(content_bytes) == <<"sha256", content_bytes>>

\* PyPDF2.PdfReader(path) accepts the bytes (no PdfReadError)
PdfReadable(content_bytes) == content_bytes \notin {"X", "Y"}

\* att['filename'].lower().endswith(".pdf")
IsPdfName(filename) == EndsWith(Lower(filename), DotPdf)


\* --------------------------------------------- pages of an output document
\* One artifact appended to a PdfMerger.  owner (position of the item in
\* tasks_to_submit) and k (position of the attachment in the list handed to
\* append_attachment_pages_to_merger) are history fields: they name the
\* occurrence the artifact was made for.
Page(kind, owner, k, filename, hash, first) ==
    [kind |-> kind, owner |-> owner, k |-> k, filename |-> filename,
     hash |-> hash, first |-> first]

BodyPage(owner) == Page("body", owner, 0, None, None, None)

\* seen_hashes_in_document[current_hash] = {'filename': current_filename}
LedgerPut(seen, hash, filename) ==
    [h \in (DOMAIN seen) \cup {hash} |-> IF h = hash THEN filename ELSE seen[h]]

EmptyLedger == [h \in {} |-> None]

\* An entry of broken_attachment_list: f"{current_filename} ({reason})".
\* owner and k are history fields, as in Page.
Broken(filename, reason, owner, k) == <<filename, reason, owner, k>>

\* Body of the for loop of append_attachment_pages_to_merger for one
\* attachment.  att.hdr is the outcome of rendering and appending the label
\* page ("ok", "empty": no file or an empty file, "exc": an exception);
\* att.store is the outcome of writing the copy of the content ("ok", "exc").
AttachOne(st, att, k, deduplicate_active, owner) ==
    LET is_duplicate_ref == deduplicate_active /\ att.hash \in DOMAIN st.seen
        first == IF is_duplicate_ref THEN st.seen[att.hash] ELSE None
        counted == [st EXCEPT !.count = @ + 1,
                              !.reused = IF is_duplicate_ref THEN @ + 1 ELSE @]
        label == Page("label", owner, k, att.filename, att.hash, first)
        headed ==
            CASE att.hdr = "ok" -> [counted EXCEPT !.merger = Append(@, label)]
              [] att.hdr = "empty" ->
                    [counted EXCEPT !.broken = Append(@, Broken(att.filename, "header page error", owner, k))]
              [] att.hdr = "exc" ->
                    [counted EXCEPT !.broken = Append(@, Broken(att.filename, "header page creation error", owner, k))]
        content ==
            IF IsPdfName(att.filename) /\ att.content # ""
            THEN IF att.store = "exc"
                 THEN [headed EXCEPT !.broken = Append(@, Broken(att.filename, "content append error", owner, k))]
                 ELSE IF PdfReadable(att.content)
                 THEN [headed EXCEPT !.merger =
                          Append(@, Page("content", owner, k, att.filename, att.hash, None))]
                 ELSE [headed EXCEPT
                          !.broken = Append(@, Broken(att.filename, "corrupted PDF content", owner, k)),
                          !.merger = Append(@, Page("error", owner, k, att.filename, att.hash, None))]
            ELSE headed
        recorded ==
            IF deduplicate_active
            THEN [content EXCEPT !.seen = LedgerPut(@, att.hash, att.filename)]
            ELSE content
    IN  IF att.hdr = "exc" THEN headed
        ELSE IF is_duplicate_ref THEN headed
        ELSE recorded

RECURSIVE AttachFrom(_, _, _, _, _)
AttachFrom(st, atts, k, deduplicate_active, owner) ==
    IF k > Len(atts) THEN st
    ELSE AttachFrom(AttachOne(st, atts[k], k, deduplicate_active, owner),
                    atts, k + 1, deduplicate_active, owner)

\* append_attachment_pages_to_merger: the result holds the merger and the
\* ledger as the call leaves them, and the three values it returns.
append_attachment_pages_to_merger(merger, attachments_data_list, seen, deduplicate_active, owner) ==
    AttachFrom([merger |-> merger, seen |-> seen, count |-> 0, broken |-> <<>>, reused |-> 0],
               attachments_data_list, 1, deduplicate_active, owner)

\* [att for att in attachments_data if att['filename'].lower().endswith(".pdf")]
PdfAttachments(attachments_data) == SelectSeq(attachments_data, LAMBDA att : IsPdfName(att.filename))


\* ------------------------------------------------------------------- state
VARIABLES
    \* arguments of convert_eml_files_in_directory
    merge_all, mbox_mode, splitsize, splitpages, num_threads,
    deduplicate_attachments, prepend_date,
    \* the environment: whether eml_dir can be scanned, what os.scandir
    \* yields (in its order), and the output paths whose write raises
    root_exists, scandir, write_fails,
    \* the main thread
    pc, tasks_to_submit, input_items_count, processed_task_results,
    \* the executor: state and result of each future, what as_completed
    \* found finished when it was called, what finished after that
    future_state, future_result, initial_finished, finished_futures,
    \* the output directory: path -> pages of the document written there
    outdir,
    \* locals of the aggregation
    next_result, current_batch_items_for_merger, current_accumulated_size_mb,
    current_accumulated_page_count, split_file_counter,
    final_generated_files_for_report, total_pdf_attachments_mentioned,
    all_broken_pdf_attachments, total_reused_attachments_count,
    \* history: one record per call of _execute_final_merge_batch that had items;
    \* whether the sort changed the order in which the results were collected
    merged_parts, sort_reordered,
    \* the summary report
    summary,
    \* what logger.error and logger.info recorded during the enumeration;
    \* the scratch directories and files that exist; the body PDFs the merge
    \* noted for removal
    logged, scratch, temp_body_pdfs_to_clean

args == <<merge_all, mbox_mode, splitsize, splitpages, num_threads,
          deduplicate_attachments, prepend_date>>
env == <<root_exists, scandir, write_fails>>
pool == <<future_state, future_result, initial_finished, finished_futures>>
aggr == <<next_result, current_batch_items_for_merger, current_accumulated_size_mb,
          current_accumulated_page_count, split_file_counter,
          final_generated_files_for_report, total_pdf_attachments_mentioned,
          all_broken_pdf_attachments, total_reused_attachments_count, merged_parts>>
hist == <<sort_reordered>>
files == <<logged, scratch, temp_body_pdfs_to_clean>>
vars == <<args, env, pc, tasks_to_submit, input_items_count, processed_task_results,
          pool, outdir, aggr, hist, summary, files>>

\* ------------------------------------------------------------- input items
\* An attachment as extract_email_main_html_and_attachments returns it, with
\* the outcomes of the two file operations done for it at merge time.
Att(filename, content, hdr, store) ==
    [filename |-> filename, content |-> content, hash |-> get_sha256_hash(content),
     hdr |-> hdr, store |-> store]

\* One message and what happens when it is processed:
\*   parse : mbox.get_message(key) returns it (container mode only)
\*   body  : "ok"    the body PDF is rendered, with the given size and pages
\*           "empty" the body PDF is missing or empty after rendering
\*           "exc"   loading, parsing or rendering raises
\*   date  : the Date header as strftime("%Y-%m-%d") prints it, or None
\*   hang  : the task never returns
Item(body, size, pages, atts) ==
    [parse |-> TRUE, body |-> body, size |-> size, pages |-> pages, atts |-> atts,
     date |-> None, hang |-> FALSE]

\* An entry of os.scandir(eml_dir): a single-message file (msgs has one
\* message) or a container; opens: mailbox.mbox(path) succeeds.
Entry(name, opens, msgs) == [name |-> name, opens |-> opens, msgs |-> msgs]


\* -------------------------------------------------------------- enumeration
\* tasks_to_submit.append({'type': 'eml', 'path': str(entry.path)}) for the
\* entries whose lower-cased name ends with ".eml", in os.scandir order
RECURSIVE EmlTasks(_)
EmlTasks(entries) ==
    IF entries = <<>> THEN <<>>
    ELSE LET e == Head(entries)
         IN  (IF EndsWith(Lower(e.name), DotEml)
              THEN <<[type |-> "eml", name |-> e.name, msg_index |-> 0, item |-> e.msgs[1]]>>
              ELSE <<>>) \o EmlTasks(Tail(entries))

\* for i, key in enumerate(list(mbox.iterkeys())): one task per message that
\* mbox.get_message(key) returns, numbered i + 1
RECURSIVE MessageTasks(_, _, _)
MessageTasks(mbox_filename, msgs, i) ==
    IF i > Len(msgs) THEN <<>>
    ELSE (IF msgs[i].parse
          THEN <<[type |-> "mbox", name |-> mbox_filename, msg_index |-> i, item |-> msgs[i]]>>
          ELSE <<>>) \o MessageTasks(mbox_filename, msgs, i + 1)

\* mutant of ContainerTasks: a container that fails to open ends the scan
ContainerTasks_StopAtFailure(e, later) ==
    IF e.opens THEN MessageTasks(e.name, e.msgs, 1) \o later ELSE <<>>

\* the body of "for mbox_file_entry in mbox_entries" for the container e,
\* followed by the tasks of the containers after it: a container that fails
\* to open is logged and skipped
ContainerTasks(e, later) ==
    (IF e.opens THEN MessageTasks(e.name, e.msgs, 1) ELSE <<>>) \o later

\* the containers are the entries whose lower-cased name ends with ".mbox" or
\* ".mbx"
RECURSIVE MboxTasks(_)
MboxTasks(entries) ==
    IF entries = <<>> THEN <<>>
    ELSE LET e == Head(entries)
         IN  IF EndsWith(Lower(e.name), DotMbox) \/ EndsWith(Lower(e.name), DotMbx)
             THEN ContainerTasks(e, MboxTasks(Tail(entries)))
             ELSE MboxTasks(Tail(entries))

EnumerateTasks(entries) == IF mbox_mode THEN MboxTasks(entries) ELSE EmlTasks(entries)

\* a record of logger.error or logger.info; subject is a file name or None
Log(level, event, subject) == [level |-> level, event |-> event, subject |-> subject]

IsContainerName(name) == EndsWith(Lower(name), DotMbox) \/ EndsWith(Lower(name), DotMbx)

\* logger.error("Failed to get/parse message key ...") for each message that
\* mbox.get_message(key) does not return
RECURSIVE MessageErrors(_, _, _)
MessageErrors(mbox_filename, msgs, i) ==
    IF i > Len(msgs) THEN <<>>
    ELSE (IF msgs[i].parse THEN <<>> ELSE <<Log("error", "message", mbox_filename)>>)
         \o MessageErrors(mbox_filename, msgs, i + 1)

\* logger.error("Error processing MBOX file ...") for each container that
\* fails to open, in scan order
RECURSIVE MboxErrors(_)
MboxErrors(entries) ==
    IF entries = <<>> THEN <<>>
    ELSE LET e == Head(entries)
         IN  (IF ~IsContainerName(e.name) THEN <<>>
              ELSE IF e.opens THEN MessageErrors(e.name, e.msgs, 1)
              ELSE <<Log("error", "container", e.name)>>) \o MboxErrors(Tail(entries))

\* mutant of ScanLog: nothing is reported
ScanLog_Silent(entries) == <<>>

\* what the enumeration logs when the directory can be scanned
ScanLog(entries) ==
    LET found == IF mbox_mode
                 THEN {i \in DOMAIN entries : IsContainerName(entries[i].name)}
                 ELSE {i \in DOMAIN entries : EndsWith(Lower(entries[i].name), DotEml)}
    IN  (IF found = {} THEN <<Log("info", "none found", None)>> ELSE <<>>)
        \o (IF mbox_mode THEN MboxErrors(entries) ELSE <<>>)
        \o (IF EnumerateTasks(entries) = <<>>
            THEN <<Log("info", "no items to process", None)>> ELSE <<>>)

\* the directories made before the scan: tmp_eml_attachments and
\* tmp_task_processing
BaseScratch == {[kind |-> "shared_dir", task |-> 0], [kind |-> "tasks_dir", task |-> 0]}

\* ------------------------------------------------------- process_email_task
Message == <<"m", "e", "s", "s", "a", "g", "e">>

\* identifier_for_log
identifier_for_log(task) ==
    IF task.type = "eml" THEN task.name
    ELSE Message \o <<" ">> \o ToDecimal(task.msg_index) \o <<" ", "f", "r", "o", "m", " ">> \o task.name

\* base_name_for_file
base_name_for_file(task) ==
    IF task.type = "eml" THEN Stem(task.name)
    ELSE Stem(task.name) \o <<"_">> \o Message \o <<"_">> \o ToDecimal(task.msg_index)

\* date_prefix_str
date_prefix_str(task) ==
    IF prepend_date /\ task.item.date # None THEN task.item.date \o <<"_">> ELSE <<>>

\* final_output_path (the name inside output_dir_path)
final_output_path(task) == date_prefix_str(task) \o Sanitise(base_name_for_file(task)) \o DotPdf

\* body_only_pdf_path: task_{uuid4}/{date_prefix}{safe_base_name}_body.pdf;
\* the uuid is modelled by the position of the task
body_only_pdf_path(task, i) ==
    <<i, date_prefix_str(task) \o Sanitise(base_name_for_file(task))
         \o <<"_", "b", "o", "d", "y">> \o DotPdf>>

\* what a task returns; owner is a history field (the position of the task in
\* tasks_to_submit).  Merge mode fills path and attachments_data, individual
\* mode fills path and the three counts.  raised: the call ended with an
\* exception instead, which future.result() raises again.
Result(path, attachments_data, count, broken, reused, task, i) ==
    [path |-> path, attachments_data |-> attachments_data, pdf_attach_count |-> count,
     broken_list |-> broken, reused_count |-> reused,
     original_id |-> identifier_for_log(task), owner |-> i, raised |-> FALSE]

\* eml_to_output_for_individual_file: the merger as it is when written
IndividualDocument(task, i) ==
    append_attachment_pages_to_merger(
        IF task.item.body = "ok" THEN <<BodyPage(i)>> ELSE <<>>,
        PdfAttachments(task.item.atts), EmptyLedger, deduplicate_attachments, i)

process_email_task(task, i) ==
    IF task.item.body = "exc"
    THEN Result(None, <<>>, 0, <<>>, 0, task, i)
    ELSE IF merge_all
    THEN IF task.item.body = "empty"
         THEN Result(None, task.item.atts, 0, <<>>, 0, task, i)
         ELSE Result(body_only_pdf_path(task, i), task.item.atts, 0, <<>>, 0, task, i)
    ELSE LET d == IndividualDocument(task, i)
         IN  Result(final_output_path(task), <<>>, d.count, d.broken, d.reused, task, i)

\* merger.write(path) when the writes to the paths of fails raise: the file
\* holds the merger's pages, unless the write raises
WriteFileTo(dir, path, pages, fails) ==
    IF path \in fails THEN dir
    ELSE [f \in (DOMAIN dir) \cup {path} |-> IF f = path THEN pages ELSE dir[f]]

\* merger.write(path) in this run
WriteFile(dir, path, pages) == WriteFileTo(dir, path, pages, write_fails)

\* the output directory after the task ran
OutdirAfterTask(task, i) ==
    IF merge_all \/ task.item.body = "exc" THEN outdir
    ELSE WriteFile(outdir, final_output_path(task), IndividualDocument(task, i).merger)

\* a scratch directory or file made for task i
ScratchOf(kind, i) == [kind |-> kind, task |-> i]

\* the scratch area after the task ran.  A task that raises does so while
\* loading the message, before it makes a directory.  In merge mode the task
\* makes task_{uuid4} and leaves the body PDF in it; otherwise
\* eml_to_output_for_individual_file makes indiv_{uuid4} and the body PDF,
\* removes the body PDF and then the directory, which is empty by then.
ScratchAfterTask(task, i) ==
    IF task.item.body = "exc" THEN scratch
    ELSE IF merge_all
    THEN scratch \cup {ScratchOf("task_dir", i)}
                 \cup (IF task.item.body = "ok" THEN {ScratchOf("body", i)} ELSE {})
    ELSE LET made == {ScratchOf("indiv_dir", i)}
                     \cup (IF task.item.body = "ok" THEN {ScratchOf("indiv_body", i)} ELSE {})
             without_body == (scratch \cup made) \ {ScratchOf("indiv_body", i)}
         IN  without_body \ {ScratchOf("indiv_dir", i)}

\* ----------------------------------------------------------- main: scanning
Enumerate ==
    /\ pc = "enumerate"
    /\ scratch' = scratch \cup BaseScratch
    /\ IF ~root_exists
       THEN /\ pc' = "returned"
            /\ logged' = Append(logged, Log("error", "scan", None))
            /\ UNCHANGED <<tasks_to_submit, input_items_count>>
       ELSE /\ tasks_to_submit' = EnumerateTasks(scandir)
            /\ input_items_count' = Len(tasks_to_submit')
            /\ logged' = logged \o ScanLog(scandir)
            /\ pc' = IF tasks_to_submit' = <<>> THEN "returned" ELSE "submit"
    /\ UNCHANGED <<args, env, processed_task_results, pool, outdir, aggr, hist, summary,
                   temp_body_pdfs_to_clean>>

\* ----------------------------------------------------------------- the pool
Tasks == DOMAIN tasks_to_submit

\* futures = { executor.submit(process_email_task, task, ...) : task ... }
Submit ==
    /\ pc = "submit"
    /\ future_state' = [t \in Tasks |-> "PENDING"]
    /\ future_result' = [t \in Tasks |-> None]
    /\ pc' = "as_completed"
    /\ UNCHANGED <<args, env, tasks_to_submit, input_items_count, processed_task_results,
                   initial_finished, finished_futures, outdir, aggr, hist, summary, files>>

Submitted == pc \in {"as_completed", "collect"}

\* a worker thread takes the oldest work item of the executor's queue
StartTask ==
    /\ Submitted
    /\ Cardinality({t \in Tasks : future_state[t] = "RUNNING"}) < num_threads
    /\ \E t \in Tasks :
        /\ future_state[t] = "PENDING"
        /\ \A u \in Tasks : future_state[u] = "PENDING" => t <= u
        /\ future_state' = [future_state EXCEPT ![t] = "RUNNING"]
    /\ UNCHANGED <<args, env, pc, tasks_to_submit, input_items_count, processed_task_results,
                   future_result, initial_finished, finished_futures, outdir, aggr, hist, summary, files>>

\* process_email_task returns; a waiter installed by as_completed is told
FinishTask ==
    /\ Submitted
    /\ \E t \in Tasks :
        /\ future_state[t] = "RUNNING"
        /\ ~tasks_to_submit[t].item.hang
        /\ future_state' = [future_state EXCEPT ![t] = "FINISHED"]
        /\ future_result' = [future_result EXCEPT ![t] = process_email_task(tasks_to_submit[t], t)]
        /\ outdir' = OutdirAfterTask(tasks_to_submit[t], t)
        /\ scratch' = ScratchAfterTask(tasks_to_submit[t], t)
        /\ finished_futures' = IF pc = "collect" THEN Append(finished_futures, t)
                               ELSE finished_futures
    /\ UNCHANGED <<args, env, pc, tasks_to_submit, input_items_count, processed_task_results,
                   initial_finished, aggr, hist, summary, logged, temp_body_pdfs_to_clean>>

\* as_completed(futures) is called: the futures already finished are yielded
\* first (in the order of a set), the others as they finish
EnterAsCompleted ==
    /\ pc = "as_completed"
    /\ initial_finished' = {t \in Tasks : future_state[t] = "FINISHED"}
    /\ finished_futures' = <<>>
    /\ pc' = "collect"
    /\ UNCHANGED <<args, env, tasks_to_submit, input_items_count, processed_task_results,
                   future_state, future_result, outdir, aggr, hist, summary, files>>

\* mutant of CollectResult: only the results of successful tasks are kept
CollectResult_DropFailed(results, result) ==
    IF result.raised \/ result.path = None THEN results ELSE Append(results, result)

\* try: result = future.result(); processed_task_results.append(result)
\* except Exception: (logged)
CollectResult(results, result) == IF result.raised THEN results ELSE Append(results, result)

\* mutant of LoopEnds: the loop is left after the first result
LoopEnds_AfterFirstResult(states, initial, finished) == TRUE

\* mutant of LoopEnds: the loop is left when no future is pending
LoopEnds_WhenAllStarted(states, initial, finished) ==
    /\ \A u \in DOMAIN states : states[u] # "PENDING"
    /\ initial = {}
    /\ finished = <<>>

\* mutant of LoopEnds: as_completed never stops
LoopEnds_Never(states, initial, finished) == FALSE

\* as_completed(futures) is exhausted, and the with statement of the
\* executor is left: every future is finished and has been yielded
LoopEnds(states, initial, finished) ==
    /\ \A u \in DOMAIN states : states[u] = "FINISHED"
    /\ initial = {}
    /\ finished = <<>>

\* one iteration of "for i, future in enumerate(as_completed(futures))"
Collect ==
    /\ pc = "collect"
    /\ \E t \in (IF initial_finished # {} THEN initial_finished
                 ELSE IF finished_futures # <<>> THEN {Head(finished_futures)} ELSE {}) :
        /\ processed_task_results' = CollectResult(processed_task_results, future_result[t])
        /\ initial_finished' = initial_finished \ {t}
        /\ finished_futures' = IF initial_finished # {} THEN finished_futures
                               ELSE Tail(finished_futures)
        /\ pc' = IF LoopEnds(future_state, initial_finished', finished_futures')
                 THEN "aggregate" ELSE "collect"
    /\ UNCHANGED <<args, env, tasks_to_submit, input_items_count, future_state, future_result,
                   outdir, aggr, hist, summary, files>>


\* ------------------------------------------------------- main: aggregation
\* list.sort(key=lambda x: x[2]): a stable sort by original_id
RECURSIVE SortedInsert(_, _)
SortedInsert(sorted, x) ==
    IF sorted = <<>> THEN <<x>>
    ELSE IF StrLess(x.original_id, Head(sorted).original_id) THEN <<x>> \o sorted
    ELSE <<Head(sorted)>> \o SortedInsert(Tail(sorted), x)

RECURSIVE SortFrom(_, _, _)
SortFrom(sorted, results, k) ==
    IF k > Len(results) THEN sorted
    ELSE SortFrom(SortedInsert(sorted, results[k]), results, k + 1)

\* mutant of SortByOriginalId: the results stay in the order of collection
SortByOriginalId_Omitted(results) == results

SortByOriginalId(results) == SortFrom(<<>>, results, 1)

\* get_pdf_size_mb(body_pdf_path), get_pdf_page_count(body_pdf_path): read
\* from the body PDF the task left in its scratch directory
get_pdf_size_mb(body_pdf_path) == tasks_to_submit[body_pdf_path[1]].item.size
get_pdf_page_count(body_pdf_path) == tasks_to_submit[body_pdf_path[1]].item.pages

\* sum(1 for att in attachments_data if att['filename'].lower().endswith(".pdf"))
estimated_attach_pages(attachments_data) == Len(PdfAttachments(attachments_data))

\* f"merged_output_part_{counter_val:03d}.pdf"
output_merge_name(counter_val) ==
    <<"m", "e", "r", "g", "e", "d", "_", "o", "u", "t", "p", "u", "t", "_", "p", "a", "r", "t", "_">>
    \o ZeroPad3(counter_val) \o DotPdf

\* the for loop of _execute_final_merge_batch over the items of the batch;
\* m holds batch_merger, seen_hashes_this_merged_part and the three totals
RECURSIVE MergeItems(_, _, _)
MergeItems(m, batch, k) ==
    IF k > Len(batch) THEN m
    ELSE LET body_pdf_path == batch[k][1]
             with_body == IF body_pdf_path # None
                          THEN [m EXCEPT !.merger = Append(@, BodyPage(body_pdf_path[1]))]
                          ELSE m
             pdfs == PdfAttachments(batch[k][2])
             r == append_attachment_pages_to_merger(with_body.merger, pdfs, with_body.seen,
                                                    deduplicate_attachments, batch[k][3])
             done == IF pdfs = <<>> THEN with_body
                     ELSE [merger |-> r.merger, seen |-> r.seen,
                           total |-> with_body.total + r.count,
                           broken |-> with_body.broken \o r.broken,
                           reused |-> with_body.reused + r.reused]
         IN  MergeItems(done, batch, k + 1)

\* mutant of PartLedger: a part goes on with the ledger of the part before it
PartLedger_Carried(parts) == IF parts = <<>> THEN EmptyLedger ELSE parts[Len(parts)].seen

\* seen_hashes_this_merged_part = {} at the start of each call
PartLedger(parts) == EmptyLedger

\* mutant of BatchAfterWrite: a failed write leaves the batch in place
BatchAfterWrite_KeptOnFailure(batch, written) == IF written THEN <<>> ELSE batch

\* current_batch_items_for_merger after the try statement around
\* batch_merger.write: reset, whether or not the write raised
BatchAfterWrite(batch, written) == <<>>

\* _execute_final_merge_batch(counter_val) on the nonlocal variables, held in
\* the record a, when the writes to the paths of fails raise; each item of
\* the batch is (body_pdf_path, attachments_data) followed by the history
\* field owner
ExecuteFinalMergeBatchWith(a, counter_val, fails) ==
    IF a.batch = <<>> THEN a
    ELSE LET path == output_merge_name(counter_val)
             m == MergeItems([merger |-> <<>>, seen |-> PartLedger(a.parts), total |-> a.total,
                              broken |-> a.broken, reused |-> a.reused], a.batch, 1)
             written == path \notin fails
         IN  [batch |-> BatchAfterWrite(a.batch, written), size |-> 0, pages |-> 0,
              report |-> IF written THEN Append(a.report, path) ELSE a.report,
              total |-> m.total, broken |-> m.broken, reused |-> m.reused,
              dir |-> WriteFileTo(a.dir, path, m.merger, fails),
              clean |-> a.clean \o [j \in DOMAIN a.batch |-> ScratchOf("body", a.batch[j][1][1])],
              parts |-> Append(a.parts,
                        [counter |-> counter_val, path |-> path,
                         items |-> [j \in DOMAIN a.batch |-> a.batch[j][3]],
                         size_mb |-> a.size, page_count |-> a.pages,
                         pages |-> m.merger, seen |-> m.seen, written |-> written])]

\* _execute_final_merge_batch(counter_val) in this run
ExecuteFinalMergeBatch(a, counter_val) == ExecuteFinalMergeBatchWith(a, counter_val, write_fails)

\* mutant of SplitBefore: the page test is skipped when a size is configured
SplitBefore_SizeOnly(acc_size, acc_pages, body_size, body_pages, attach_pages) ==
    IF splitsize > 0 THEN acc_size + body_size > splitsize
    ELSE splitpages > 0 /\ acc_pages + body_pages + attach_pages > splitpages

\* mutant of SplitBefore: the size test is skipped
SplitBefore_PagesOnly(acc_size, acc_pages, body_size, body_pages, attach_pages) ==
    splitpages > 0 /\ acc_pages + body_pages + attach_pages > splitpages

\* the two split tests of the assembly loop
SplitBefore(acc_size, acc_pages, body_size, body_pages, attach_pages) ==
    \/ splitsize > 0 /\ acc_size + body_size > splitsize
    \/ splitpages > 0 /\ acc_pages + body_pages + attach_pages > splitpages

Nonlocals ==
    [batch |-> current_batch_items_for_merger, size |-> current_accumulated_size_mb,
     pages |-> current_accumulated_page_count, report |-> final_generated_files_for_report,
     total |-> total_pdf_attachments_mentioned, broken |-> all_broken_pdf_attachments,
     reused |-> total_reused_attachments_count, dir |-> outdir, parts |-> merged_parts,
     clean |-> temp_body_pdfs_to_clean]

SetNonlocals(a) ==
    /\ current_batch_items_for_merger' = a.batch
    /\ current_accumulated_size_mb' = a.size
    /\ current_accumulated_page_count' = a.pages
    /\ final_generated_files_for_report' = a.report
    /\ total_pdf_attachments_mentioned' = a.total
    /\ all_broken_pdf_attachments' = a.broken
    /\ total_reused_attachments_count' = a.reused
    /\ outdir' = a.dir
    /\ merged_parts' = a.parts
    /\ temp_body_pdfs_to_clean' = a.clean

\* processed_task_results.sort(key=lambda x: x[2])
SortResults ==
    /\ pc = "aggregate"
    /\ merge_all
    /\ processed_task_results' = SortByOriginalId(processed_task_results)
    /\ sort_reordered' = (processed_task_results' # processed_task_results)
    /\ pc' = "assemble"
    /\ UNCHANGED <<args, env, tasks_to_submit, input_items_count, pool, outdir, aggr, summary, files>>

\* mutant of ShouldSplit: the batch is closed also when it is empty
ShouldSplit_EvenWhenEmpty(batch, exceeded) == exceeded

\* "if current_batch_items_for_merger:" around the two split tests
ShouldSplit(batch, exceeded) == batch # <<>> /\ exceeded

\* one iteration of "for body_pdf_path, attachments_data, _original_id in
\* processed_task_results", when the writes to the paths of fails raise
AssembleItemWith(a, counter_val, result, fails) ==
    IF result.path = None THEN [a |-> a, counter |-> counter_val]
    ELSE LET body_pdf_size_mb == get_pdf_size_mb(result.path)
             body_pdf_page_count == get_pdf_page_count(result.path)
             attach_pages == estimated_attach_pages(result.attachments_data)
             split == ShouldSplit(a.batch,
                                  SplitBefore(a.size, a.pages, body_pdf_size_mb,
                                              body_pdf_page_count, attach_pages))
             b == IF split THEN ExecuteFinalMergeBatchWith(a, counter_val, fails) ELSE a
         IN  [a |-> [b EXCEPT
                       !.batch = Append(@, <<result.path, result.attachments_data, result.owner>>),
                       !.size = @ + body_pdf_size_mb,
                       !.pages = @ + body_pdf_page_count + attach_pages],
              counter |-> IF split THEN counter_val + 1 ELSE counter_val]

\* one iteration of the assembly loop in this run
AssembleItem(a, counter_val, result) == AssembleItemWith(a, counter_val, result, write_fails)

AssembleStep ==
    /\ pc = "assemble"
    /\ next_result <= Len(processed_task_results)
    /\ LET n == AssembleItem(Nonlocals, split_file_counter, processed_task_results[next_result])
       IN  /\ SetNonlocals(n.a)
           /\ split_file_counter' = n.counter
    /\ next_result' = next_result + 1
    /\ UNCHANGED <<args, env, pc, tasks_to_submit, input_items_count, processed_task_results,
                   pool, hist, summary, logged, scratch>>

\* _execute_final_merge_batch(split_file_counter) after the loop
FinalFlush ==
    /\ pc = "assemble"
    /\ next_result > Len(processed_task_results)
    /\ SetNonlocals(ExecuteFinalMergeBatch(Nonlocals, split_file_counter))
    /\ pc' = "summary"
    /\ UNCHANGED <<args, env, tasks_to_submit, input_items_count, processed_task_results,
                   pool, next_result, split_file_counter, hist, summary, logged, scratch>>

\* the else branch: "for res in processed_task_results: if res and res[0]: ..."
RECURSIVE IndividualFrom(_, _, _)
IndividualFrom(a, results, k) ==
    IF k > Len(results) THEN a
    ELSE IndividualFrom(
            IF results[k].path # None
            THEN [a EXCEPT !.report = Append(@, results[k].path),
                           !.total = @ + results[k].pdf_attach_count,
                           !.broken = @ \o results[k].broken_list,
                           !.reused = @ + results[k].reused_count]
            ELSE a,
            results, k + 1)

IndividualOutputs ==
    /\ pc = "aggregate"
    /\ ~merge_all
    /\ SetNonlocals(IndividualFrom(Nonlocals, processed_task_results, 1))
    /\ pc' = "summary"
    /\ UNCHANGED <<args, env, tasks_to_submit, input_items_count, processed_task_results,
                   pool, next_result, split_file_counter, hist, summary, logged, scratch>>

\* sum(1 for f in final_generated_files_for_report
\*     if Path(f).exists() and Path(f).stat().st_size > 0)
successful_conversions_count(report, dir) ==
    Cardinality({k \in DOMAIN report : report[k] \in DOMAIN dir})

\* the cleanup after the report: os.remove of each noted body PDF, then
\* rmdir of tmp_task_processing if nothing is left in it
Cleanup(dirs, noted) ==
    LET removed == dirs \ {noted[j] : j \in DOMAIN noted}
    IN  IF \E f \in removed : f.kind \in {"task_dir", "body", "indiv_dir", "indiv_body"}
        THEN removed
        ELSE removed \ {ScratchOf("tasks_dir", 0)}

SummaryReport ==
    /\ pc = "summary"
    /\ LET ok == successful_conversions_count(final_generated_files_for_report, outdir)
       IN  summary' = [items_attempted |-> input_items_count,
                       successful_conversions_count |-> ok,
                       failed_conversions_count |-> input_items_count - ok,
                       attachments_processed |-> total_pdf_attachments_mentioned,
                       attachments_reused |-> total_reused_attachments_count,
                       broken_attachments |-> all_broken_pdf_attachments,
                       output_files |-> final_generated_files_for_report]
    /\ scratch' = Cleanup(scratch, temp_body_pdfs_to_clean)
    /\ pc' = "done"
    /\ UNCHANGED <<args, env, tasks_to_submit, input_items_count, processed_task_results,
                   pool, outdir, aggr, hist, logged, temp_body_pdfs_to_clean>>

Next ==
    \/ Enumerate
    \/ Submit
    \/ StartTask
    \/ FinishTask
    \/ EnterAsCompleted
    \/ Collect
    \/ SortResults
    \/ AssembleStep
    \/ FinalFlush
    \/ IndividualOutputs
    \/ SummaryReport


\* ----------------------------------------------------------- initial states
Config(merge, mbox, size, pages, threads, dedup, date) ==
    [merge_all |-> merge, mbox_mode |-> mbox, splitsize |-> size, splitpages |-> pages,
     num_threads |-> threads, deduplicate_attachments |-> dedup, prepend_date |-> date]

\* the state when convert_eml_files_in_directory is entered with one of the
\* argument lists Configs, on one of the directories Listings (a listing is
\* [root_exists, scandir]), with one of the sets of failing writes
InitWith(Configs, Listings, WriteFailures) ==
    /\ \E c \in Configs :
        /\ merge_all = c.merge_all
        /\ mbox_mode = c.mbox_mode
        /\ splitsize = c.splitsize
        /\ splitpages = c.splitpages
        /\ num_threads = c.num_threads
        /\ deduplicate_attachments = c.deduplicate_attachments
        /\ prepend_date = c.prepend_date
    /\ \E l \in Listings :
        /\ root_exists = l.root_exists
        /\ scandir = l.scandir
    /\ write_fails \in WriteFailures
    /\ pc = "enumerate"
    /\ tasks_to_submit = <<>>
    /\ input_items_count = 0
    /\ processed_task_results = <<>>
    /\ future_state = <<>>
    /\ future_result = <<>>
    /\ initial_finished = {}
    /\ finished_futures = <<>>
    /\ outdir = [f \in {} |-> <<>>]
    /\ next_result = 1
    /\ current_batch_items_for_merger = <<>>
    /\ current_accumulated_size_mb = 0
    /\ current_accumulated_page_count = 0
    /\ split_file_counter = 1
    /\ final_generated_files_for_report = <<>>
    /\ total_pdf_attachments_mentioned = 0
    /\ all_broken_pdf_attachments = <<>>
    /\ total_reused_attachments_count = 0
    /\ merged_parts = <<>>
    /\ sort_reordered = FALSE
    /\ summary = None
    /\ logged = <<>>
    /\ scratch = {}
    /\ temp_body_pdfs_to_clean = <<>>

Letters == <<"a", "b", "c", "d", "e", "f", "g", "h">>
EmlName(i) == <<Letters[i]>> \o DotEml
MboxName(i) == <<Letters[i]>> \o (IF i % 2 = 1 THEN DotMbox ELSE DotMbx)

\* the orders in which os.scandir is taken to yield n entries named in
\* ascending order: ascending and descending
ScanOrders(n) == {[k \in 1..n |-> k], [k \in 1..n |-> n + 1 - k]}
\* os.scandir yielding the entries in ascending order of their names only
AscendingOrder(n) == {[k \in 1..n |-> k]}
\* the scan orders of n entries: both of ScanOrders, or the ascending one
Orders(both, n) == IF both THEN ScanOrders(n) ELSE AscendingOrder(n)

\* a directory of n single-message files a.eml, b.eml, ...
EmlListings(Items, both) ==
    UNION {
        { [root_exists |-> TRUE,
           scandir |-> [k \in 1..n |-> Entry(EmlName(order[k]), TRUE, <<items[k]>>)]] :
          order \in Orders(both, n), items \in [1..n -> Items] } :
        n \in 1..MaxTasks }

\* a directory of one container a.mbox, or of the containers a.mbox and
\* b.mbx, that hold at most MaxTasks messages together
MboxListings(Items, both) ==
    UNION {
        { [root_exists |-> TRUE, scandir |-> <<Entry(MboxName(1), TRUE, msgs)>>] :
          msgs \in [1..n -> Items] } : n \in 1..MaxTasks }
    \cup
    UNION {
        UNION {
            { [root_exists |-> TRUE,
               scandir |-> [k \in 1..2 |->
                              Entry(MboxName(order[k]), TRUE,
                                    IF order[k] = 1 THEN first ELSE second)]] :
              order \in Orders(both, 2),
              first \in [1..n -> Items], second \in [1..(total - n) -> Items] } :
            n \in 1..(total - 1) } :
        total \in 2..MaxTasks }

Threads == 1..MaxThreads


\* ------------------------------------------------------ the specifications
APdf == <<"a">> \o DotPdf
BPdf == <<"B", ".", "P", "D", "F">>
NotesTxt == <<"n", ".", "t", "x", "t">>

PlainItem == Item("ok", 1, 1, <<>>)
FailedItem == Item("exc", 1, 1, <<>>)
NoBodyItem == Item("empty", 1, 1, <<Att(APdf, "P", "ok", "ok")>>)
AttachedItem == Item("ok", 1, 1, <<Att(APdf, "P", "ok", "ok")>>)
HangingItem == [PlainItem EXCEPT !.hang = TRUE]

\* main() rejects --splitsize and --splitpages without --merge
MergeConfigs(mbox, Sizes, Pages, Workers, Dedups) ==
    { Config(TRUE, mbox, size, pages, threads, dedup, FALSE) :
      size \in Sizes, pages \in Pages, threads \in Workers, dedup \in Dedups }
IndividualConfigs(mbox, Workers, Dedups) ==
    { Config(FALSE, mbox, 0, 0, threads, dedup, FALSE) :
      threads \in Workers, dedup \in Dedups }

\* Spec: a directory of .eml files, some of which fail to convert, merged
\* (unsplit or split by pages) or converted one by one, by 1..MaxThreads workers
BaseItems == {PlainItem, FailedItem, AttachedItem}

Init ==
    InitWith(MergeConfigs(FALSE, {0}, {0, 2}, Threads, {TRUE})
                 \cup IndividualConfigs(FALSE, Threads, {TRUE}),
             EmlListings(BaseItems, TRUE), {{}})

Spec == Init /\ [][Next]_vars


\* SpecMbox: a directory of one or two containers, listed in ascending order
InitMbox ==
    InitWith(MergeConfigs(TRUE, {0}, {0}, Threads, {TRUE})
                 \cup IndividualConfigs(TRUE, Threads, {TRUE}),
             MboxListings({PlainItem, FailedItem}, FALSE), {{}})

SpecMbox == InitMbox /\ [][Next]_vars

\* SpecSplit: merging with a size threshold, a page threshold, both or
\* none, over bodies of one or two size units and pages, with document and
\* other attachments; one worker
SplitItems ==
    { Item("ok", 1, 1, <<>>), Item("ok", 2, 1, <<>>), Item("ok", 1, 2, <<>>),
      Item("ok", 1, 1, <<Att(APdf, "P", "ok", "ok"), Att(NotesTxt, "Q", "ok", "ok")>>),
      Item("ok", 2, 2, <<Att(APdf, "P", "ok", "ok"), Att(BPdf, "Q", "ok", "ok")>>),
      FailedItem }

InitSplit ==
    InitWith(MergeConfigs(FALSE, {0, 3}, {0, 2, 3}, {1}, {TRUE})
                 \cup IndividualConfigs(FALSE, {1}, {TRUE}),
             EmlListings(SplitItems, FALSE), {{}})

SpecSplit == InitSplit /\ [][Next]_vars

\* SpecDedup: deduplication on and off, merged (unsplit or split by pages) or
\* one by one, over items whose attachments repeat content under other names,
\* are corrupt, are no documents, or whose body PDF is missing; one worker
DedupItems ==
    { PlainItem,
      Item("ok", 1, 1, <<Att(APdf, "P", "ok", "ok")>>),
      Item("ok", 1, 1, <<Att(BPdf, "P", "ok", "ok"), Att(NotesTxt, "P", "ok", "ok")>>),
      Item("ok", 1, 1, <<Att(APdf, "X", "ok", "ok"), Att(BPdf, "X", "ok", "ok")>>),
      NoBodyItem }

InitDedup ==
    InitWith(MergeConfigs(FALSE, {0}, {0, 4}, {1}, BOOLEAN)
                 \cup IndividualConfigs(FALSE, {1}, BOOLEAN),
             EmlListings(DedupItems, FALSE), {{}})

SpecDedup == InitDedup /\ [][Next]_vars

\* SpecHang: some tasks never return; the worker threads are scheduled
\* fairly and the main thread keeps running
InitHang ==
    InitWith(MergeConfigs(FALSE, {0}, {0}, Threads, {TRUE})
                 \cup IndividualConfigs(FALSE, Threads, {TRUE}),
             EmlListings({PlainItem, HangingItem}, FALSE), {{}})

SpecHang ==
    /\ InitHang
    /\ [][Next]_vars
    /\ WF_vars(StartTask)
    /\ WF_vars(FinishTask)
    /\ WF_vars(Enumerate \/ Submit \/ EnterAsCompleted \/ Collect \/ SortResults
               \/ AssembleStep \/ FinalFlush \/ IndividualOutputs \/ SummaryReport)

\* SpecSize: merging with a size threshold, a page threshold, both or none,
\* over bodies of which some exceed the size threshold alone and some have
\* more pages than the page threshold; the write of the second part may
\* raise; one worker
BigItem == Item("ok", 4, 1, <<>>)
LongItem == Item("ok", 1, 3, <<>>)
SizeItems == {PlainItem, Item("ok", 2, 1, <<>>), BigItem, LongItem}

InitSize ==
    InitWith(MergeConfigs(FALSE, {0, 3}, {0, 2}, {1}, {TRUE})
                 \cup IndividualConfigs(FALSE, {1}, {TRUE}),
             EmlListings(SizeItems, FALSE),
             {{}, {output_merge_name(2)}})

SpecSize == InitSize /\ [][Next]_vars

\* SpecLive: no task hangs; every threshold configuration, over bodies that
\* fit and bodies that exceed the size or the page threshold alone; one or
\* two workers, scheduled fairly, and a main thread that keeps running
InitLive ==
    InitWith(MergeConfigs(FALSE, {0, 3}, {0, 2}, {1, 2}, {TRUE})
                 \cup IndividualConfigs(FALSE, {1, 2}, {TRUE}),
             EmlListings({PlainItem, BigItem, LongItem}, FALSE), {{}})

SpecLive ==
    /\ InitLive
    /\ [][Next]_vars
    /\ WF_vars(StartTask)
    /\ WF_vars(FinishTask)
    /\ WF_vars(Enumerate \/ Submit \/ EnterAsCompleted \/ Collect \/ SortResults
               \/ AssembleStep \/ FinalFlush \/ IndividualOutputs \/ SummaryReport)

\* SpecRoot: the input directory is missing, is empty, holds no file of the
\* kind looked for, holds one container that fails to open, or holds .eml
\* files; in EML mode and in container mode
RootListings ==
    { [root_exists |-> FALSE, scandir |-> <<>>],
      [root_exists |-> TRUE, scandir |-> <<>>],
      [root_exists |-> TRUE, scandir |-> <<Entry(NotesTxt, TRUE, <<PlainItem>>)>>],
      [root_exists |-> TRUE, scandir |-> <<Entry(MboxName(1), FALSE, <<PlainItem>>)>>] }
    \cup EmlListings({PlainItem, AttachedItem}, FALSE)

InitRoot ==
    InitWith(MergeConfigs(FALSE, {0}, {0}, Threads, {TRUE})
                 \cup IndividualConfigs(FALSE, Threads, {TRUE})
                 \cup IndividualConfigs(TRUE, Threads, {TRUE}),
             RootListings, {{}})

SpecRoot == InitRoot /\ [][Next]_vars

\* SpecContainers: one to MaxTasks containers a.mbox, b.mbx, ... of one or
\* two messages each, no more than MaxTasks messages together; a container
\* may fail to open and a message may fail to be read
UnreadMessage == [PlainItem EXCEPT !.parse = FALSE]

\* the number of messages of the containers whose contents are listed
RECURSIVE TotalMessages(_)
TotalMessages(contents) ==
    IF contents = <<>> THEN 0 ELSE Len(Head(contents)) + TotalMessages(Tail(contents))

ContainerListings(Items) ==
    LET Contents == UNION {[1..m -> Items] : m \in 1..2}
    IN  UNION {
            { [root_exists |-> TRUE,
               scandir |-> [k \in 1..n |-> Entry(MboxName(k), opens[k], msgs[k])]] :
              opens \in [1..n -> BOOLEAN],
              msgs \in {q \in [1..n -> Contents] : TotalMessages(q) <= MaxTasks} } :
            n \in 1..MaxTasks }

InitContainers ==
    InitWith(MergeConfigs(TRUE, {0}, {0}, {1}, {TRUE})
                 \cup IndividualConfigs(TRUE, {1}, {TRUE}),
             ContainerListings({PlainItem, UnreadMessage}), {{}})

SpecContainers == InitContainers /\ [][Next]_vars

\* SpecLabel: items with a repeated document whose label page is not made
\* (an exception, or an empty file), a corrupt document whose label page is
\* empty, and a document whose content copy cannot be stored; deduplication
\* on and off; one worker
LabelItems ==
    { PlainItem,
      Item("ok", 1, 1, <<Att(APdf, "P", "ok", "ok"), Att(BPdf, "P", "exc", "ok")>>),
      Item("ok", 1, 1, <<Att(APdf, "P", "ok", "ok"), Att(BPdf, "P", "empty", "ok")>>),
      Item("ok", 1, 1, <<Att(APdf, "X", "empty", "ok")>>),
      Item("ok", 1, 1, <<Att(APdf, "Q", "ok", "exc")>>) }

InitLabel ==
    InitWith(MergeConfigs(FALSE, {0}, {0}, {1}, BOOLEAN)
                 \cup IndividualConfigs(FALSE, {1}, BOOLEAN),
             EmlListings(LabelItems, FALSE), {{}})

SpecLabel == InitLabel /\ [][Next]_vars

\* SpecWrite: the write of the first or the second merged part, or of the
\* individual output a.pdf, raises; one worker
InitWrite ==
    InitWith(MergeConfigs(FALSE, {0}, {0, 2}, {1}, {TRUE})
                 \cup IndividualConfigs(FALSE, {1}, {TRUE}),
             EmlListings({PlainItem, AttachedItem}, FALSE),
             SUBSET {output_merge_name(1), output_merge_name(2), <<"a">> \o DotPdf})

SpecWrite == InitWrite /\ [][Next]_vars

\* SpecNames: a directory of .eml files whose names differ only in the case
\* of the suffix or in a character that the sanitising replaces
AUpperEml == <<"a", ".", "E", "M", "L">>
AQuestionEml == <<"a", "?">> \o DotEml
AStarEml == <<"a", "*">> \o DotEml
CloseNames == {EmlName(1), AUpperEml, AQuestionEml, AStarEml}

\* a directory of n single-message files with distinct names out of Names,
\* which os.scandir yields in any order
NamedEmlListings(Names, Items) ==
    UNION {
        { [root_exists |-> TRUE,
           scandir |-> [k \in 1..n |-> Entry(names[k], TRUE, <<items[k]>>)]] :
          names \in {q \in [1..n -> Names] : \A i, j \in 1..n : q[i] = q[j] => i = j},
          items \in [1..n -> Items] } :
        n \in 1..MaxTasks }

InitNames ==
    InitWith(MergeConfigs(FALSE, {0}, {0}, Threads, {TRUE})
                 \cup IndividualConfigs(FALSE, Threads, {TRUE}),
             NamedEmlListings(CloseNames, {PlainItem, AttachedItem}), {{}})

SpecNames == InitNames /\ [][Next]_vars

\* ------------------------------------------------- reference computations
AfterCollect == pc \in {"aggregate", "assemble", "summary", "done"}
Aggregated == pc \in {"summary", "done"}

\* the owners of the items of the merged parts, in part order
RECURSIVE PartItems(_, _)
PartItems(parts, k) ==
    IF k > Len(parts) THEN <<>> ELSE parts[k].items \o PartItems(parts, k + 1)

InitialNonlocals ==
    [batch |-> <<>>, size |-> 0, pages |-> 0, report |-> <<>>, total |-> 0,
     broken |-> <<>>, reused |-> 0, dir |-> [f \in {} |-> <<>>], parts |-> <<>>,
     clean |-> <<>>]

RECURSIVE AssembleFrom(_, _, _)
AssembleFrom(n, results, k) ==
    IF k > Len(results) THEN n
    ELSE AssembleFrom(AssembleItem(n.a, n.counter, results[k]), results, k + 1)

RECURSIVE AssembleFromWith(_, _, _, _)
AssembleFromWith(n, results, k, fails) ==
    IF k > Len(results) THEN n
    ELSE AssembleFromWith(AssembleItemWith(n.a, n.counter, results[k], fails), results, k + 1, fails)

\* the merge of the results of this run when the writes to the paths of
\* fails raise
MergeRunWith(fails) ==
    LET n == AssembleFromWith([a |-> InitialNonlocals, counter |-> 1],
                              SortByOriginalId(processed_task_results), 1, fails)
    IN  ExecuteFinalMergeBatchWith(n.a, n.counter, fails)

\* the aggregation of the run in which the futures are yielded in the order
\* of submission
ReferenceRun ==
    LET canonical == [t \in Tasks |-> process_email_task(tasks_to_submit[t], t)]
    IN  IF merge_all
        THEN LET n == AssembleFrom([a |-> InitialNonlocals, counter |-> 1],
                                   SortByOriginalId(canonical), 1)
             IN  ExecuteFinalMergeBatch(n.a, n.counter)
        ELSE IndividualFrom(InitialNonlocals, canonical, 1)

\* ------------------------------------------------------------------ claims

\* C1: in merge mode the items of the merged parts, inside each part and
\* across the parts in index order, are in ascending order of the position at
\* which the enumeration produced their task.
C1_MergedItemsAscendBySequenceIndex ==
    (Aggregated /\ merge_all) =>
        LET items == PartItems(merged_parts, 1)
        IN  \A i, j \in DOMAIN items : i < j => items[i] < items[j]

\* C2: in merge mode the merged parts (their items, the pages appended for
\* them with each embed-or-reference decision, their ledgers) and the reused
\* count are those of the run that yields the futures in submission order,
\* whatever the order in which the pool completed the tasks.
C2_SameUnitsForEveryCompletionOrder ==
    (Aggregated /\ merge_all) =>
        /\ merged_parts = ReferenceRun.parts
        /\ total_reused_attachments_count = ReferenceRun.reused

C2_Witness ==
    /\ pc = "done"
    /\ merge_all
    /\ sort_reordered
    /\ total_reused_attachments_count >= 1
    /\ Len(PartItems(merged_parts, 1)) >= 3

\* C6: in merge mode the closed parts partition the ordered result list: their
\* items, concatenated in part order, are the whole list.
C6_UnitsPartitionResults ==
    (Aggregated /\ merge_all) =>
        PartItems(merged_parts, 1)
            = [k \in DOMAIN processed_task_results |-> processed_task_results[k].owner]

\* C7: every task contributes at most one result while the pool runs and
\* exactly one once the loop has ended, also when it fails; a result is a
\* failure only if its own task failed; no future raises to the main thread.
TaskFails(task) == task.item.body = "exc" \/ (merge_all /\ task.item.body = "empty")

C7_OneResultPerTask ==
    /\ \A t \in Tasks :
        LET n == Cardinality({k \in DOMAIN processed_task_results :
                                processed_task_results[k].owner = t})
        IN  /\ n <= 1
            /\ AfterCollect => n = 1
            /\ n = 1 => future_state[t] = "FINISHED"
    /\ \A k \in DOMAIN processed_task_results :
        LET r == processed_task_results[k]
        IN  /\ r.owner \in Tasks
            /\ (r.path = None) <=> TaskFails(tasks_to_submit[r.owner])
            /\ r.original_id = identifier_for_log(tasks_to_submit[r.owner])
    /\ \A t \in DOMAIN future_state :
        future_state[t] = "FINISHED" => ~future_result[t].raised

C7_Witness ==
    /\ AfterCollect
    /\ \E k, l \in DOMAIN processed_task_results :
        /\ processed_task_results[k].path = None
        /\ processed_task_results[l].path # None

\* C9: the summary's succeeded count is the number of attempted items whose
\* content is in a written output document, its failed count the number of
\* those whose content is in none, and they add up to the items attempted.
ItemWritten(t) ==
    \E f \in DOMAIN outdir : \E j \in DOMAIN outdir[f] : outdir[f][j].owner = t

C9_SummaryCountsItems ==
    pc = "done" =>
        /\ summary.successful_conversions_count = Cardinality({t \in Tasks : ItemWritten(t)})
        /\ summary.failed_conversions_count = Cardinality({t \in Tasks : ~ItemWritten(t)})
        /\ summary.successful_conversions_count + summary.failed_conversions_count
               = summary.items_attempted

\* C10: the summary's broken attachments and output files are in encounter
\* order, the same for every completion order of the pool: they are those of
\* the run that yields the futures in submission order.
C10_ListsInEncounterOrder ==
    pc = "done" =>
        /\ summary.output_files = ReferenceRun.report
        /\ summary.broken_attachments = ReferenceRun.broken


\* the document attachments of task t, as a unit sees them
Documents(t) == PdfAttachments(tasks_to_submit[t].item.atts)

\* the occurrences <<t, k>> of the digest h on document attachments of part p
Occurrences(p, h) ==
    {o \in UNION {{<<p.items[j], k>> : k \in DOMAIN Documents(p.items[j])} : j \in DOMAIN p.items} :
        Documents(o[1])[o[2]].hash = h}

PartHashes(p) ==
    UNION {{Documents(p.items[j])[k].hash : k \in DOMAIN Documents(p.items[j])} : j \in DOMAIN p.items}

Embedded(pages, o) ==
    \E j \in DOMAIN pages : pages[j].kind = "content" /\ pages[j].owner = o[1] /\ pages[j].k = o[2]

ReferenceNotice(pages, o) ==
    \E j \in DOMAIN pages :
        /\ pages[j].kind = "label" /\ pages[j].owner = o[1] /\ pages[j].k = o[2]
        /\ pages[j].first # None

RECURSIVE SumSeq(_, _)
SumSeq(q, k) == IF k > Len(q) THEN 0 ELSE q[k] + SumSeq(q, k + 1)

\* the sum over the digests h of part p of (occurrences of h - 1)
Repeats(p) ==
    Cardinality(UNION {Occurrences(p, h) : h \in PartHashes(p)}) - Cardinality(PartHashes(p))

\* C3: with deduplication on, for every digest on the document attachments of
\* a merged part exactly one occurrence has its content embedded and every
\* other one is a reference notice, and the reused count of the run is the sum
\* over parts and digests of (occurrences - 1).
C3_OneEmbeddedPerFingerprint ==
    (Aggregated /\ merge_all /\ deduplicate_attachments) =>
        /\ \A i \in DOMAIN merged_parts :
            LET p == merged_parts[i]
            IN  \A h \in PartHashes(p) :
                    /\ Cardinality({o \in Occurrences(p, h) : Embedded(p.pages, o)}) = 1
                    /\ \A o \in Occurrences(p, h) :
                           ~Embedded(p.pages, o) => ReferenceNotice(p.pages, o)
        /\ total_reused_attachments_count
               = SumSeq([i \in DOMAIN merged_parts |-> Repeats(merged_parts[i])], 1)

\* C4: with deduplication off the reused count is 0, no output holds a
\* reference notice, and every document attachment whose bytes validate has
\* its content embedded in an output, however often its digest occurs.
C4_NoDedupEmbedsEveryValidDocument ==
    (Aggregated /\ ~deduplicate_attachments) =>
        /\ total_reused_attachments_count = 0
        /\ \A f \in DOMAIN outdir : \A j \in DOMAIN outdir[f] : outdir[f][j].first = None
        /\ \A t \in Tasks : \A k \in DOMAIN Documents(t) :
               PdfReadable(Documents(t)[k].content) =>
                   \E f \in DOMAIN outdir : Embedded(outdir[f], <<t, k>>)

\* C5: with splitpages = P > 0 a part is closed with a page estimate (body
\* pages plus one per document attachment, over its items) of at most P,
\* unless it holds one item only, with or without a size threshold.
PageEstimate(t) == tasks_to_submit[t].item.pages + Len(Documents(t))

C5_ClosedPartWithinPageThreshold ==
    splitpages > 0 =>
        \A i \in DOMAIN merged_parts :
            LET p == merged_parts[i]
            IN  /\ p.page_count = SumSeq([j \in DOMAIN p.items |-> PageEstimate(p.items[j])], 1)
                /\ p.page_count <= splitpages \/ Len(p.items) = 1

C5_Witness ==
    /\ splitpages > 0
    /\ splitsize > 0
    /\ Len(merged_parts) >= 2
    /\ Len(merged_parts[1].items) = 2
    /\ merged_parts[1].page_count = splitpages
    /\ merged_parts[1].size_mb < splitsize


\* C8: whatever the number of workers and of tasks, every submitted task that
\* does not hang is eventually started and completed, also when another task
\* never finishes.
C8_HungTaskStarvesNoOther ==
    \A t \in 1..MaxTasks :
        [](/\ Submitted
           /\ t \in Tasks
           /\ ~tasks_to_submit[t].item.hang
           => <>(t \in DOMAIN future_state /\ future_state[t] = "FINISHED"))


\* C11: with merging disabled a reference notice is made only for an
\* attachment whose digest an earlier attachment of the same item has, and
\* when no item repeats a digest among its own attachments the reused count
\* is 0 and every converted item has an output file of its own.
NoInternalDuplicate(t) ==
    \A k, l \in DOMAIN Documents(t) : Documents(t)[k].hash = Documents(t)[l].hash => k = l

C11_IndividualLedgersAreIsolated ==
    (pc = "done" /\ ~merge_all) =>
        /\ \A f \in DOMAIN outdir : \A j \in DOMAIN outdir[f] :
               LET page == outdir[f][j]
               IN  page.first # None =>
                       \E k \in 1..(page.k - 1) : Documents(page.owner)[k].hash = page.hash
        /\ (\A t \in Tasks : NoInternalDuplicate(t)) =>
               /\ summary.attachments_reused = 0
               /\ Cardinality(DOMAIN outdir)
                      = Cardinality({t \in Tasks : ~TaskFails(tasks_to_submit[t])})


\* C12: in merge mode a part other than the last was closed because taking
\* the next item would have exceeded a threshold, and with no threshold and a
\* result list that is not empty there is exactly one part, which holds every
\* result of the ordered list.
C12_ClosedOnlyAtThresholdOrEnd ==
    (Aggregated /\ merge_all) =>
        /\ \A i \in 1..(Len(merged_parts) - 1) :
               LET p == merged_parts[i]
                   next == tasks_to_submit[merged_parts[i + 1].items[1]].item
               IN  SplitBefore(p.size_mb, p.page_count, next.size, next.pages,
                               estimated_attach_pages(next.atts))
        /\ (splitsize = 0 /\ splitpages = 0 /\ processed_task_results # <<>>) =>
               /\ Len(merged_parts) = 1
               /\ merged_parts[1].items
                      = [k \in DOMAIN processed_task_results |-> processed_task_results[k].owner]


\* C13: in merge mode a part whose write raised is in neither the list of
\* generated files nor the output directory, the run goes on, and every
\* other part is the part of the same index (same items, same pages, same
\* ledger, same outcome of its write) of the run in which that write succeeds.
C13_WriteFailureStaysInItsUnit ==
    (Aggregated /\ merge_all) =>
        \A k \in DOMAIN merged_parts :
            LET p == merged_parts[k]
                reference == MergeRunWith(write_fails \ {p.path}).parts
            IN  /\ ~p.written =>
                       /\ p.path \notin Range(final_generated_files_for_report)
                       /\ p.path \notin DOMAIN outdir
                /\ Len(reference) = Len(merged_parts)
                /\ \A i \in DOMAIN merged_parts : i # k => merged_parts[i] = reference[i]
                /\ [p EXCEPT !.written = TRUE] = reference[k]

C13_Witness ==
    /\ pc = "done"
    /\ merge_all
    /\ Len(merged_parts) = 2
    /\ ~merged_parts[1].written
    /\ merged_parts[2].written
    /\ Len(merged_parts[1].items) = 2
    /\ \E j \in DOMAIN merged_parts[2].pages : merged_parts[2].pages[j].kind = "content"


\* C14: in merge mode an item whose body PDF is missing or empty is still in
\* a merged part: each of its document attachments has pages in that part
\* and is counted in the attachments processed.
BodyMissing(t) == tasks_to_submit[t].item.body = "empty"

C14_BodylessItemStaysInItsUnit ==
    (Aggregated /\ merge_all) =>
        /\ \A t \in Tasks : BodyMissing(t) =>
               \E i \in DOMAIN merged_parts :
                   LET p == merged_parts[i]
                   IN  /\ t \in Range(p.items)
                       /\ \A j \in DOMAIN p.pages :
                              p.pages[j].owner = t => p.pages[j].kind # "body"
                       /\ \A k \in DOMAIN Documents(t) :
                              \E j \in DOMAIN p.pages :
                                  p.pages[j].owner = t /\ p.pages[j].k = k
        /\ total_pdf_attachments_mentioned
               >= SumSeq([t \in Tasks |-> IF BodyMissing(t) THEN Len(Documents(t)) ELSE 0], 1)


\* the kinds of the pages made for the occurrence o, in the order of the pages
OccurrenceKinds(pages, o) ==
    LET own == SelectSeq(pages, LAMBDA page : page.owner = o[1] /\ page.k = o[2])
    IN  [j \in DOMAIN own |-> own[j].kind]

\* the entries of the broken list made for the occurrence o
BrokenFor(broken, o) == {j \in DOMAIN broken : broken[j][3] = o[1] /\ broken[j][4] = o[2]}

\* C15: a document attachment whose bytes do not validate has, in an output
\* document, its label page followed by one notice of the error and no
\* content, and it is in the broken list once the outputs are aggregated,
\* as a corrupted document.
C15_BrokenDocumentGetsOneNotice ==
    Aggregated =>
        \A t \in Tasks : \A k \in DOMAIN Documents(t) :
            (tasks_to_submit[t].item.body # "exc" /\ ~PdfReadable(Documents(t)[k].content)) =>
                /\ \E f \in DOMAIN outdir :
                       OccurrenceKinds(outdir[f], <<t, k>>) = <<"label", "error">>
                /\ \E j \in BrokenFor(all_broken_pdf_attachments, <<t, k>>) :
                       all_broken_pdf_attachments[j][2] = "corrupted PDF content"

\* o1 comes before o2 in the part p: in an earlier item, or earlier in the
\* same item
Before(p, o1, o2) ==
    LET at(t) == CHOOSE j \in DOMAIN p.items : p.items[j] = t
    IN  at(o1[1]) < at(o2[1]) \/ (o1[1] = o2[1] /\ o1[2] < o2[2])

PartOccurrences(p) == UNION {Occurrences(p, h) : h \in PartHashes(p)}

\* C16: with deduplication on, an occurrence in a merged part is a reference
\* notice exactly if an earlier occurrence of the same part has its digest,
\* whatever the parts before it embedded; the ledger of a part holds the
\* digests of that part only; and the reused count is the number of repeats
\* inside the parts.
C16_LedgerStartsEmptyInEachUnit ==
    (Aggregated /\ merge_all /\ deduplicate_attachments) =>
        /\ \A i \in DOMAIN merged_parts :
               LET p == merged_parts[i]
               IN  /\ DOMAIN p.seen = PartHashes(p)
                   /\ \A o \in PartOccurrences(p) :
                          LET repeat == \E e \in PartOccurrences(p) :
                                            /\ Before(p, e, o)
                                            /\ Documents(e[1])[e[2]].hash = Documents(o[1])[o[2]].hash
                          IN  /\ ReferenceNotice(p.pages, o) <=> repeat
                              /\ (~repeat /\ PdfReadable(Documents(o[1])[o[2]].content))
                                     => Embedded(p.pages, o)
        /\ total_reused_attachments_count
               = SumSeq([i \in DOMAIN merged_parts |-> Repeats(merged_parts[i])], 1)

C16_Witness ==
    /\ pc = "done"
    /\ merge_all
    /\ deduplicate_attachments
    /\ Len(merged_parts) = 2
    /\ total_reused_attachments_count = 1
    /\ \E o1 \in PartOccurrences(merged_parts[1]), o2 \in PartOccurrences(merged_parts[2]) :
           /\ Documents(o1[1])[o1[2]].hash = Documents(o2[1])[o2[2]].hash
           /\ Embedded(merged_parts[1].pages, o1)
           /\ Embedded(merged_parts[2].pages, o2)


\* the items that share a ledger with task t in the finished run, in the
\* order in which the ledger meets them
LedgerItems(t) ==
    IF ~merge_all THEN <<t>>
    ELSE IF \E i \in DOMAIN merged_parts : t \in Range(merged_parts[i].items)
    THEN merged_parts[CHOOSE i \in DOMAIN merged_parts : t \in Range(merged_parts[i].items)].items
    ELSE <<>>

\* the occurrence <<t, k>> was handled as a duplicate reference: its digest
\* was in the ledger, put there by an earlier occurrence whose label page
\* did not raise
DuplicateReference(t, k) ==
    /\ deduplicate_attachments
    /\ \E j \in DOMAIN LedgerItems(t) : LedgerItems(t)[j] = t
    /\ LET q == LedgerItems(t)
           at == CHOOSE j \in DOMAIN q : q[j] = t
       IN  \E j \in 1..at : \E e \in DOMAIN Documents(q[j]) :
               /\ j < at \/ e < k
               /\ Documents(q[j])[e].hash = Documents(t)[k].hash
               /\ Documents(q[j])[e].hdr # "exc"

AllDuplicateReferences ==
    {o \in UNION {{<<t, k>> : k \in DOMAIN Documents(t)} : t \in Tasks} :
        DuplicateReference(o[1], o[2])}

\* C20: an attachment handled as a duplicate reference has no content in any
\* output and no entry in the broken list, also when its label page is not
\* made, and the reused count is the number of such attachments.
C20_DuplicateReferenceIsNeverBroken ==
    Aggregated =>
        /\ \A o \in AllDuplicateReferences :
               /\ \A f \in DOMAIN outdir : ~Embedded(outdir[f], o)
               /\ BrokenFor(all_broken_pdf_attachments, o) = {}
        /\ total_reused_attachments_count = Cardinality(AllDuplicateReferences)


\* C17: in container mode a container that fails to open is the subject of
\* one logged error and of no task, and every message that can be read of
\* every container that opens is a task, with its position as index,
\* wherever the failing containers are.
TasksOf(name) == {t \in Tasks : tasks_to_submit[t].name = name}

C17_BadContainerIsSkipped ==
    (mbox_mode /\ root_exists /\ pc # "enumerate") =>
        \A i \in DOMAIN scandir :
            LET e == scandir[i]
                errors == {j \in DOMAIN logged :
                              logged[j] = Log("error", "container", e.name)}
            IN  IF e.opens
                THEN /\ errors = {}
                     /\ \A m \in DOMAIN e.msgs :
                            e.msgs[m].parse =>
                                Cardinality({t \in TasksOf(e.name) :
                                                tasks_to_submit[t].msg_index = m}) = 1
                     /\ Cardinality(TasksOf(e.name))
                            = Cardinality({m \in DOMAIN e.msgs : e.msgs[m].parse})
                ELSE /\ Cardinality(errors) = 1
                     /\ TasksOf(e.name) = {}

C17_Witness ==
    /\ pc = "done"
    /\ mbox_mode
    /\ Len(scandir) = 3
    /\ scandir[1].opens /\ ~scandir[2].opens /\ scandir[3].opens
    /\ TasksOf(scandir[1].name) # {}
    /\ TasksOf(scandir[3].name) # {}


\* C18: when the run is over no body PDF and no directory made for a task is
\* left in the scratch area.
C18_NoScratchLeftBehind ==
    pc \in {"done", "returned"} =>
        \A f \in scratch : f.kind \notin {"task_dir", "body", "indiv_dir", "indiv_body"}

\* C19: a directory that cannot be scanned ends the run with a logged error,
\* one that yields no item ends it without a scan error and with the report
\* that there is nothing to process; in both cases no task was submitted and
\* no output was written.
ScanErrors == {j \in DOMAIN logged : logged[j] = Log("error", "scan", None)}

C19_MissingRootFailsEmptyRootDoesNot ==
    /\ (~root_exists \/ EnumerateTasks(scandir) = <<>>) => pc \in {"enumerate", "returned"}
    /\ pc = "returned" =>
           /\ IF root_exists
              THEN /\ ScanErrors = {}
                   /\ logged # <<>>
                   /\ logged[Len(logged)] = Log("info", "no items to process", None)
              ELSE Cardinality(ScanErrors) = 1
           /\ tasks_to_submit = <<>>
           /\ future_state = <<>>
           /\ processed_task_results = <<>>
           /\ DOMAIN outdir = {}

C19_Witness ==
    /\ pc = "returned"
    /\ ~root_exists
    /\ ScanErrors # {}


\* the first occurrence of the digest h in the part p
FirstOccurrence(p, h) ==
    CHOOSE o \in Occurrences(p, h) : \A e \in Occurrences(p, h) : e = o \/ Before(p, o, e)

\* C21: with deduplication on, the ledger of a merged part names, for each
\* digest, the first occurrence of the digest in the part; the content of
\* that occurrence is embedded, and every reference notice for the digest
\* names its file.
C21_LedgerNamesFirstEmbeddedOccurrence ==
    (Aggregated /\ merge_all /\ deduplicate_attachments) =>
        \A i \in DOMAIN merged_parts :
            LET p == merged_parts[i]
            IN  \A h \in DOMAIN p.seen :
                    LET o == FirstOccurrence(p, h)
                        name == Documents(o[1])[o[2]].filename
                    IN  /\ p.seen[h] = name
                        /\ Embedded(p.pages, o)
                        /\ \A j \in DOMAIN p.pages :
                               (p.pages[j].hash = h /\ p.pages[j].first # None)
                                   => p.pages[j].first = name


\* the least number of pages of the document made of the given artifacts: a
\* body has the pages of its PDF; a label page, a notice of an error and an
\* embedded document have one page at least
AppendedPages(pages) ==
    SumSeq([j \in DOMAIN pages |->
               IF pages[j].kind = "body"
               THEN tasks_to_submit[pages[j].owner].item.pages ELSE 1], 1)

\* C22: the page estimate with which a merged part was closed is not less
\* than the number of pages appended to the document of the part.
C22_PageEstimateIsUpperBound ==
    (Aggregated /\ merge_all) =>
        \A i \in DOMAIN merged_parts :
            merged_parts[i].page_count >= AppendedPages(merged_parts[i].pages)


\* C23: with splitsize = S > 0 a part is closed with an accumulated size
\* (the sum of the sizes of the bodies of its items) of at most S, unless it
\* holds one item only; an item whose body alone exceeds S is the only item
\* of its part.
C23_ClosedPartWithinSizeThreshold ==
    (merge_all /\ splitsize > 0) =>
        \A i \in DOMAIN merged_parts :
            LET p == merged_parts[i]
            IN  /\ p.size_mb = SumSeq([j \in DOMAIN p.items |->
                                          tasks_to_submit[p.items[j]].item.size], 1)
                /\ p.size_mb <= splitsize \/ Len(p.items) = 1
                /\ \A j \in DOMAIN p.items :
                       tasks_to_submit[p.items[j]].item.size > splitsize => Len(p.items) = 1

C23_Witness ==
    /\ pc = "done"
    /\ splitsize > 0
    /\ splitpages = 0
    /\ Len(merged_parts) = 3
    /\ merged_parts[1].size_mb < splitsize
    /\ Len(merged_parts[1].items) = 1
    /\ merged_parts[2].size_mb > splitsize
    /\ Len(merged_parts[3].items) = 1

\* C26: the merged parts have the indices 1, 2, ... in the order in which
\* they were closed, also when a write raised; no part is empty; the path of
\* a part is made of its index alone.
C26_UnitIndicesAreConsecutive ==
    merge_all =>
        /\ \A i \in DOMAIN merged_parts :
               /\ merged_parts[i].counter = i
               /\ merged_parts[i].items # <<>>
               /\ merged_parts[i].path = output_merge_name(i)
        /\ \A i, j \in DOMAIN merged_parts :
               merged_parts[i].path = merged_parts[j].path => i = j
        /\ split_file_counter = Len(merged_parts) + (IF Aggregated THEN 0 ELSE 1)

C26_Witness ==
    /\ pc = "done"
    /\ Len(merged_parts) = 3
    /\ ~merged_parts[2].written
    /\ merged_parts[3].written
    /\ tasks_to_submit[merged_parts[1].items[1]].item.size > splitsize
    /\ splitsize > 0


\* every future of the pool is finished
PoolDrained == \A t \in DOMAIN future_state : future_state[t] = "FINISHED"

\* C24: a step that changes a counter, the batch, a merged part with its
\* ledger or the summary is a step of the main thread taken when every
\* future is finished, and a step of a worker changes none of them; with
\* merging disabled a reference notice in an output names an attachment of
\* the item of that output (the ledger of a worker holds nothing of another
\* task).
C24_LedgersAndCountersHaveOneThread ==
    /\ [][ /\ (aggr' # aggr \/ summary' # summary) =>
                 (PoolDrained /\ future_state # <<>> /\ pool' = pool)
           /\ (future_state' # future_state \/ future_result' # future_result) =>
                 (aggr' = aggr /\ summary' = summary) ]_vars
    /\ [](~merge_all =>
             \A f \in DOMAIN outdir : \A j \in DOMAIN outdir[f] :
                 outdir[f][j].first # None =>
                     \E k \in DOMAIN Documents(outdir[f][j].owner) :
                         Documents(outdir[f][j].owner)[k].filename = outdir[f][j].first)

C24_Witness ==
    /\ pc = "assemble"
    /\ num_threads = 2
    /\ Len(tasks_to_submit) >= 2
    /\ current_batch_items_for_merger # <<>>
    /\ sort_reordered

\* C25: the futures are those of the whole enumeration, submitted after it,
\* and in merge mode nothing is sorted, put in a batch, merged or written
\* before every future is finished.
C25_EnumerateThenPoolThenAssemble ==
    /\ future_state # <<>> =>
           /\ pc \notin {"enumerate", "submit"}
           /\ DOMAIN future_state = DOMAIN EnumerateTasks(scandir)
           /\ tasks_to_submit = EnumerateTasks(scandir)
    /\ pc \in {"enumerate", "submit"} => future_state = <<>>
    /\ (merge_all /\ (\/ pc \in {"aggregate", "assemble", "summary", "done"}
                       \/ merged_parts # <<>>
                       \/ current_batch_items_for_merger # <<>>
                       \/ DOMAIN outdir # {})) =>
           (PoolDrained /\ future_state # <<>>)

C25_Witness ==
    /\ pc = "done"
    /\ merge_all
    /\ num_threads = 2
    /\ Len(merged_parts) >= 2
    /\ Len(tasks_to_submit) = 3


\* C27: when no task hangs the run reaches the end of the summary, and in
\* merge mode it has then gone through the whole result list, every result
\* with a body is in exactly one merged part, and no batch is left open.
C27_RunTerminates ==
    /\ <>(pc = "done")
    /\ [](pc = "done" =>
             /\ \A t \in Tasks : future_state[t] = "FINISHED"
             /\ merge_all =>
                    /\ next_result = Len(processed_task_results) + 1
                    /\ current_batch_items_for_merger = <<>>
                    /\ \A k \in DOMAIN processed_task_results :
                           processed_task_results[k].path # None =>
                               Cardinality({j \in DOMAIN PartItems(merged_parts, 1) :
                                   PartItems(merged_parts, 1)[j]
                                       = processed_task_results[k].owner}) = 1)

C27_Witness ==
    /\ pc = "done"
    /\ merge_all
    /\ splitsize > 0
    /\ splitpages > 0
    /\ Len(merged_parts) = 3
    /\ merged_parts[1].size_mb > splitsize
    /\ merged_parts[2].page_count > splitpages


\* C28: every path in the summary's list of generated output files is a
\* file of the output directory whose write did not fail, in merge mode and
\* with merging disabled.
C28_ReportedFilesWereWritten ==
    pc = "done" =>
        \A k \in DOMAIN summary.output_files :
            /\ summary.output_files[k] \in DOMAIN outdir
            /\ summary.output_files[k] \notin write_fails


\* C29: with merging disabled two distinct tasks never have the same final
\* output path, and at the end the output directory holds as many documents
\* as items were converted.
C29_IndividualOutputPathsAreDistinct ==
    ~merge_all =>
        /\ \A t, u \in Tasks :
               t # u => final_output_path(tasks_to_submit[t])
                            # final_output_path(tasks_to_submit[u])
        /\ pc = "done" =>
               Cardinality(DOMAIN outdir)
                   = Cardinality({t \in Tasks : ~TaskFails(tasks_to_submit[t])})


\* C30: at every point of the run each processed attachment has at most one
\* entry in the broken list, and the length of the broken list and the
\* reused count are each at most the count of attachments processed.
C30_BrokenAndReusedWithinProcessed ==
    /\ \A t \in Tasks : \A k \in DOMAIN Documents(t) :
           Cardinality(BrokenFor(all_broken_pdf_attachments, <<t, k>>)) <= 1
    /\ Len(all_broken_pdf_attachments) <= total_pdf_attachments_mentioned
    /\ total_reused_attachments_count <= total_pdf_attachments_mentioned

====
